---- MODULE Spec2Model ----
(***************************************************************************)
(* A model of src/api.rs of rust-keyutils: the Keyring / Key / KeyManager *)
(* handles over the kernel key-management calls, the two-call buffer       *)
(* query, and the decoder of the kernel's description record.              *)
(*                                                                         *)
(* Strings are sequences of one-character strings.  A u32 is a pair        *)
(* <<hi, lo>> of 16-bit halves, so that the 32-bit width is exact.          *)
(***************************************************************************)
EXTENDS Integers, Sequences, FiniteSets, TLC

(* ------------------------------------------------------------------ *)
(* Strings                                                            *)
(* ------------------------------------------------------------------ *)

SEMI == ";"

\* str::split(';'): the pieces between the delimiters, in order; a string
\* with no delimiter is one piece, the empty string is one empty piece.
RECURSIVE SplitFrom(_, _, _)
SplitFrom(s, i, cur) ==
    IF i > Len(s) THEN <<cur>>
    ELSE IF s[i] = SEMI THEN <<cur>> \o SplitFrom(s, i + 1, <<>>)
    ELSE SplitFrom(s, i + 1, Append(cur, s[i]))

split(s) == SplitFrom(s, 1, <<>>)

\* Vec::reverse
reverse(v) == [i \in 1..Len(v) |-> v[Len(v) + 1 - i]]

\* The pieces joined again with the delimiter between them.
RECURSIVE Join(_)
Join(fs) ==
    IF Len(fs) = 0 THEN <<>>
    ELSE IF Len(fs) = 1 THEN fs[1]
    ELSE fs[1] \o <<SEMI>> \o Join(Tail(fs))

(* ------------------------------------------------------------------ *)
(* u32 arithmetic on <<hi, lo>> halves                                *)
(* ------------------------------------------------------------------ *)

Half == 2^16

U32(n) == <<n \div Half, n % Half>>

U32Zero == <<0, 0>>

\* char::to_digit(radix): the digit's value, or -1 when it is not a digit
\* of that radix.
to_digit(c, radix) ==
    LET v == CASE c = "0" -> 0 [] c = "1" -> 1 [] c = "2" -> 2 [] c = "3" -> 3
               [] c = "4" -> 4 [] c = "5" -> 5 [] c = "6" -> 6 [] c = "7" -> 7
               [] c = "8" -> 8 [] c = "9" -> 9
               [] c = "a" -> 10 [] c = "b" -> 11 [] c = "c" -> 12
               [] c = "d" -> 13 [] c = "e" -> 14 [] c = "f" -> 15
               [] c = "A" -> 10 [] c = "B" -> 11 [] c = "C" -> 12
               [] c = "D" -> 13 [] c = "E" -> 14 [] c = "F" -> 15
               [] OTHER -> -1
    IN IF v < radix THEN v ELSE -1

NoNum == <<-1, -1>>

\* The checked accumulation of u32::from_str_radix: acc * radix + d, or
\* NoNum when a character is no digit or the value leaves 32 bits.
RECURSIVE ParseDigits(_, _, _, _)
ParseDigits(s, i, acc, radix) ==
    IF i > Len(s) THEN acc
    ELSE LET d == to_digit(s[i], radix) IN
         IF d < 0 THEN NoNum
         ELSE LET lo == acc[2] * radix + d
                  hi == acc[1] * radix + (lo \div Half)
              IN IF hi >= Half THEN NoNum
                 ELSE ParseDigits(s, i + 1, <<hi, lo % Half>>, radix)

\* u32::from_str_radix (and str::parse::<u32> with radix 10): an empty
\* string and a lone sign fail, one leading "+" is accepted, "-" is not.
from_str_radix(s, radix) ==
    IF Len(s) = 0 THEN NoNum
    ELSE IF s[1] = "+" THEN
        (IF Len(s) = 1 THEN NoNum ELSE ParseDigits(s, 2, U32Zero, radix))
    ELSE ParseDigits(s, 1, U32Zero, radix)

parse_u32(s) == from_str_radix(s, 10)

(* ------------------------------------------------------------------ *)
(* The kernel's description record "%s;%d;%d;%08x;%s"                  *)
(* ------------------------------------------------------------------ *)

DecDigit(d) == <<"0", "1", "2", "3", "4", "5", "6", "7", "8", "9">>[d + 1]

HexDigit(d) ==
    <<"0", "1", "2", "3", "4", "5", "6", "7",
      "8", "9", "a", "b", "c", "d", "e", "f">>[d + 1]

\* "%d" of a u32 held as halves: long division by ten.
RECURSIVE FmtDec(_)
FmtDec(n) ==
    LET t  == (n[1] % 10) * Half + n[2]
        q  == <<n[1] \div 10, t \div 10>>
    IN IF q = U32Zero THEN <<DecDigit(t % 10)>>
       ELSE Append(FmtDec(q), DecDigit(t % 10))

Hex4(h) ==
    <<HexDigit(h \div 4096), HexDigit((h \div 256) % 16),
      HexDigit((h \div 16) % 16), HexDigit(h % 16)>>

\* "%08x"
FmtHex8(n) == Hex4(n[1]) \o Hex4(n[2])

\* What keyctl_describe reports for an object: type;uid;gid;perm;description.
DescribeRecord(o) ==
    Join(<<o.type, FmtDec(o.uid), FmtDec(o.gid), FmtHex8(o.perm), o.desc>>)

(* ------------------------------------------------------------------ *)
(* Description::parse                                                 *)
(* ------------------------------------------------------------------ *)

None == [tag |-> "None"]
Panic == [tag |-> "panic"]

\* parse that indexes the pieces from the front.
Description_parse_unreversed(desc) ==
    LET pieces == split(desc)
        len    == Len(pieces)
    IN IF len < 5 THEN None
       ELSE LET uid   == parse_u32(pieces[2])
                gid   == parse_u32(pieces[3])
                perms == from_str_radix(pieces[4], 16)
            IN IF uid = NoNum \/ gid = NoNum \/ perms = NoNum THEN Panic
               ELSE [tag |-> "Some", type_ |-> pieces[1], uid |-> uid, gid |-> gid,
                     perms |-> perms, description |-> pieces[5]]

\* parse that gives None for a number that does not parse.
Description_parse_checked(desc) ==
    LET pieces == reverse(split(desc))
        len    == Len(pieces)
    IN IF len < 5 THEN None
       ELSE LET uid   == parse_u32(pieces[4])
                gid   == parse_u32(pieces[3])
                perms == from_str_radix(pieces[2], 16)
            IN IF uid = NoNum \/ gid = NoNum \/ perms = NoNum THEN None
               ELSE [tag |-> "Some", type_ |-> pieces[5], uid |-> uid, gid |-> gid,
                     perms |-> perms, description |-> pieces[1]]

Description_parse(desc) ==
    LET pieces == reverse(split(desc))
        len    == Len(pieces)
    IN IF len < 5 THEN None
       ELSE LET uid   == parse_u32(pieces[4])
                gid   == parse_u32(pieces[3])
                perms == from_str_radix(pieces[2], 16)
            IN IF uid = NoNum \/ gid = NoNum \/ perms = NoNum THEN Panic
               ELSE [tag |-> "Some",
                     type_ |-> pieces[5],
                     uid |-> uid,
                     gid |-> gid,
                     perms |-> perms,
                     description |-> pieces[1]]

(* ------------------------------------------------------------------ *)
(* Bounds and the values the operations are tried with                *)
(* ------------------------------------------------------------------ *)

\* The kernel's key quota: serials 1..MaxSerial can be allocated.
MaxSerial == 3
Serials == 1..MaxSerial

TypeUser == <<"u", "s", "e", "r">>
TypeKeyring == <<"k", "e", "y", "r", "i", "n", "g">>
Types == {TypeUser, TypeKeyring}

\* Descriptions add_key is tried with: one plain, one holding the delimiter.
Descs == {<<"d">>, <<"a", ";", "b">>}

\* Payloads add_key and update are tried with: one byte, and two.
Payloads == {<<1>>, <<1, 2>>}

(* ------------------------------------------------------------------ *)
(* Permission masks (KeyPermissions, a u32): the possessor's bits are  *)
(* the top byte: view 01, read 02, write 04, search 08, link 10,      *)
(* setattr 20.                                                        *)
(* ------------------------------------------------------------------ *)

VIEW == "view"
READ == "read"
WRITE == "write"
SEARCH == "search"
LINK == "link"
SETATTR == "setattr"

PosBit(need) ==
    CASE need = VIEW -> 1 [] need = READ -> 2 [] need = WRITE -> 4
      [] need = SEARCH -> 8 [] need = LINK -> 16 [] need = SETATTR -> 32

HasPerm(perm, need) == ((perm[1] \div 256) \div PosBit(need)) % 2 = 1

\* 3f010000: what the kernel gives a new key; 3b010000: the same without
\* write; 3d010000: the same without read; 00000000: nothing.
PermDefault == <<63 * 256 + 1, 0>>
PermNoWrite == <<59 * 256 + 1, 0>>
PermNoRead == <<61 * 256 + 1, 0>>
PermNone == <<0, 0>>
\* The masks set_permissions is tried with.
Perms == {PermNoWrite, PermNoRead}

(* ------------------------------------------------------------------ *)
(* The kernel's objects                                               *)
(* ------------------------------------------------------------------ *)

\* error: the error a rejected key answers requests with; timeout: the
\* seconds set_timeout gave the object, 0 for no expiration.
NoObj == [state |-> "none", type |-> <<>>, desc |-> <<>>, payload |-> <<>>,
          uid |-> U32Zero, gid |-> U32Zero, perm |-> PermNone, error |-> "",
          timeout |-> 0]

NewObj(type, desc, payload) ==
    [state |-> "live", type |-> type, desc |-> desc, payload |-> payload,
     uid |-> U32Zero, gid |-> U32Zero, perm |-> PermDefault, error |-> "",
     timeout |-> 0]

\* A kernel call's outcome: the raw return value, the errno it leaves and
\* the kernel's state after it.
Fail(k, e) == [ret |-> -1, errno |-> e, k |-> k]
Done(k, ret) == [ret |-> ret, errno |-> "", k |-> k]

\* The kernel's answer for a serial that names no usable object.
Usable(k, id) ==
    IF id \notin Serials THEN "ENOKEY"
    ELSE IF k.obj[id].state \in {"none", "invalid"} THEN "ENOKEY"
    ELSE IF k.obj[id].state = "revoked" THEN "EKEYREVOKED"
    ELSE "OK"

\* The kernel's lookup of a serial for a call that requires the permission
\* `need` on it.
Lookup(k, id, need) ==
    LET e == Usable(k, id) IN
    IF e # "OK" THEN e
    ELSE IF ~HasPerm(k.obj[id].perm, need) THEN "EACCES"
    ELSE "OK"

\* The same for a call that needs a keyring.
LookupKeyring(k, id, need) ==
    LET e == Lookup(k, id, need) IN
    IF e # "OK" THEN e
    ELSE IF k.obj[id].type # TypeKeyring THEN "ENOTDIR"
    ELSE "OK"

RECURSIVE Without(_, _)
Without(seq, x) ==
    IF Len(seq) = 0 THEN <<>>
    ELSE IF Head(seq) = x THEN Without(Tail(seq), x)
    ELSE <<Head(seq)>> \o Without(Tail(seq), x)

Range(seq) == {seq[i] : i \in 1..Len(seq)}

\* The children of `ring` that have this type and description.
Matching(k, ring, type, desc) ==
    {c \in Range(k.links[ring]) :
        k.obj[c].type = type /\ k.obj[c].desc = desc}

RECURSIVE WithoutAll(_, _)
WithoutAll(seq, xs) ==
    IF Len(seq) = 0 THEN <<>>
    ELSE IF Head(seq) \in xs THEN WithoutAll(Tail(seq), xs)
    ELSE <<Head(seq)>> \o WithoutAll(Tail(seq), xs)

\* A link to `key` added to `ring`, displacing the links to the objects of
\* the same type and description.
Linked(k, key, ring) ==
    LET o    == k.obj[key]
        rest == WithoutAll(k.links[ring], Matching(k, ring, o.type, o.desc) \cup {key})
    IN [k EXCEPT !.links[ring] = Append(rest, key)]

FreeSerials(k) == {s \in Serials : k.obj[s].state = "none"}

\* The keyrings reachable from `id` through links, `id` included.
RECURSIVE Reach(_, _, _)
Reach(k, ids, n) ==
    IF n = 0 THEN ids
    ELSE Reach(k, ids \cup UNION {Range(k.links[i]) : i \in ids}, n - 1)

(* ------------------------------------------------------------------ *)
(* The kernel calls the handles issue                                 *)
(* ------------------------------------------------------------------ *)

keyctl_clear(k, id) ==
    LET e == LookupKeyring(k, id, WRITE) IN
    IF e # "OK" THEN Fail(k, e)
    ELSE Done([k EXCEPT !.links[id] = <<>>], 0)

keyctl_link(k, key, ring) ==
    LET ek == Lookup(k, key, LINK)
        er == LookupKeyring(k, ring, WRITE)
    IN IF ek # "OK" THEN Fail(k, ek)
       ELSE IF er # "OK" THEN Fail(k, er)
       ELSE IF ring \in Reach(k, {key}, MaxSerial) THEN Fail(k, "EDEADLK")
       ELSE Done(Linked(k, key, ring), 0)

\* Unlinking needs write on the keyring only; the key is not looked at.
keyctl_unlink(k, key, ring) ==
    LET er == LookupKeyring(k, ring, WRITE) IN
    IF er # "OK" THEN Fail(k, er)
    ELSE IF key \notin Range(k.links[ring]) THEN Fail(k, "ENOENT")
    ELSE Done([k EXCEPT !.links[ring] = Without(@, key)], 0)

SizeOfSerial == 4

\* A serial as the four bytes of a key_serial_t, low byte first.
SerialBytes(s) == <<s % 256, (s \div 256) % 256, (s \div 65536) % 256, s \div 16777216>>

RECURSIVE LinkBytes(_)
LinkBytes(ls) ==
    IF Len(ls) = 0 THEN <<>> ELSE SerialBytes(Head(ls)) \o LinkBytes(Tail(ls))

\* What keyctl_read reads: a keyring's list of serials, a key's payload.
ReadData(k, id) ==
    IF k.obj[id].type = TypeKeyring THEN LinkBytes(k.links[id])
    ELSE k.obj[id].payload

Min(a, b) == IF a < b THEN a ELSE b

\* keyctl_read(id, buffer, buflen): returns the size of the data whatever
\* buflen is, and writes the data's first min(buflen, size) bytes.
keyctl_read(k, id, buflen) ==
    LET e == Lookup(k, id, READ) IN
    IF e # "OK" THEN Fail(k, e) @@ [buf |-> <<>>]
    ELSE LET data == ReadData(k, id) IN
         Done(k, Len(data)) @@ [buf |-> SubSeq(data, 1, Min(buflen, Len(data)))]

NUL == "\\0"

\* keyctl_describe(id, buffer, buflen): returns the size of the record with
\* its terminator, and writes it when the buffer can hold all of it.
keyctl_describe(k, id, buflen) ==
    LET e == Lookup(k, id, VIEW) IN
    IF e # "OK" THEN Fail(k, e) @@ [buf |-> <<>>]
    ELSE LET data == Append(DescribeRecord(k.obj[id]), NUL) IN
         Done(k, Len(data)) @@ [buf |-> IF buflen >= Len(data) THEN data ELSE <<>>]

\* add_key(type, description, payload, plen, keyring): a live key of that
\* type and description in the keyring that can be updated is updated in
\* place; otherwise a new key is made and displaces the link to the old one.
add_key(k, type, desc, payload, ring) ==
    LET e   == LookupKeyring(k, ring, WRITE)
        upd == {c \in Matching(k, ring, type, desc) :
                   /\ type = TypeUser
                   /\ k.obj[c].state = "live"
                   /\ HasPerm(k.obj[c].perm, WRITE)}
    IN IF e # "OK" THEN Fail(k, e)
       ELSE IF upd # {} THEN
           LET c == CHOOSE c \in upd : TRUE IN
           Done([k EXCEPT !.obj[c].payload = payload], c)
       ELSE IF FreeSerials(k) = {} THEN Fail(k, "EDQUOT")
       ELSE LET s  == CHOOSE s \in FreeSerials(k) : \A t \in FreeSerials(k) : s <= t
                k1 == [k EXCEPT !.obj[s] = NewObj(type, desc, payload),
                                !.links[s] = <<>>]
            IN Done(Linked(k1, s, ring), s)

keyctl_update(k, id, payload) ==
    LET e == Lookup(k, id, WRITE) IN
    IF e # "OK" THEN Fail(k, e)
    ELSE IF k.obj[id].type # TypeUser THEN Fail(k, "EOPNOTSUPP")
    ELSE Done([k EXCEPT !.obj[id].payload = payload], 0)

keyctl_revoke(k, id) ==
    LET e == Lookup(k, id, WRITE) IN
    IF e # "OK" THEN Fail(k, e)
    ELSE Done([k EXCEPT !.obj[id].state = "revoked"], 0)

\* The object is marked; its links go when the collector runs.
keyctl_invalidate(k, id) ==
    LET e == Lookup(k, id, SEARCH) IN
    IF e # "OK" THEN Fail(k, e)
    ELSE Done([k EXCEPT !.obj[id].state = "invalid"], 0)

keyctl_setperm(k, id, perm) ==
    LET e == Lookup(k, id, SETATTR) IN
    IF e # "OK" THEN Fail(k, e)
    ELSE Done([k EXCEPT !.obj[id].perm = perm], 0)

\* !0: the id keyctl_chown leaves as it is.
NoChange == <<Half - 1, Half - 1>>

\* keyctl_chown(id, uid, gid): sets the ids that are not !0.
keyctl_chown(k, id, uid, gid) ==
    LET e == Lookup(k, id, SETATTR) IN
    IF e # "OK" THEN Fail(k, e)
    ELSE Done([k EXCEPT !.obj[id].uid = IF uid = NoChange THEN @ ELSE uid,
                        !.obj[id].gid = IF gid = NoChange THEN @ ELSE gid], 0)

keyctl_set_timeout(k, id, timeout) ==
    LET e == Lookup(k, id, SETATTR) IN
    IF e # "OK" THEN Fail(k, e)
    ELSE Done([k EXCEPT !.obj[id].timeout = timeout], 0)

\* The kernel's collector: the links to invalidated objects are removed.
Collected(k) ==
    [k EXCEPT !.links = [r \in Serials |->
        WithoutAll(k.links[r], {c \in Serials : k.obj[c].state = "invalid"})]]

(* ------------------------------------------------------------------ *)
(* Results and the error mapping                                      *)
(* ------------------------------------------------------------------ *)

Ok(v) == [tag |-> "Ok", val |-> v]
Err(e) == [tag |-> "Err", errno |-> e]
\* The process died of a memory fault.
Fault == [tag |-> "fault"]
Unit == <<>>

\* check_call that takes every return value for a success.
check_call_unchecked(r, value) == Ok(value)

\* r is a kernel call's outcome: its return value and the errno it left.
check_call(r, value) == IF r.ret = -1 THEN Err(r.errno) ELSE Ok(value)

check_call_ret(r) == IF r.ret = -1 THEN Err(r.errno) ELSE Ok(r.ret)

check_call_ret_serial(r) == IF r.ret = -1 THEN Err(r.errno) ELSE Ok(r.ret)

\* A handler's outcome: its result and the kernel's state when it returns.
Out(res, k) == [res |-> res, k |-> k]

(* ------------------------------------------------------------------ *)
(* Vec::with_capacity, the kernel's fill, Vec::set_len                *)
(* ------------------------------------------------------------------ *)

\* What memory the kernel did not write may hold.
JunkBytes == {0, 1}
JunkChars == {"x", ";"}

\* The vectors unsafe set_len(new_len) can leave, as <<elements, capacity>>:
\* `written` is what the fill call wrote into a buffer of capacity `cap`.
\* Within what was written the vector is its first new_len elements.  Past
\* it the elements are whatever the memory holds, and past the capacity the
\* memory is not the vector's: the read of it may also fault.
\* A negative new_len is one that `as usize` wrapped: a length past the end
\* of memory.
set_len(written, cap, new_len, junk) ==
    IF new_len < 0 THEN {Fault}
    ELSE IF new_len <= Len(written)
    THEN {Ok(SubSeq(written, 1, new_len)) @@ [cap |-> cap]}
    ELSE {Ok(written \o [i \in 1..(new_len - Len(written)) |-> j]) @@ [cap |-> cap]
             : j \in junk}
         \cup (IF new_len > cap THEN {Fault} ELSE {})

(* ------------------------------------------------------------------ *)
(* Key                                                                *)
(* ------------------------------------------------------------------ *)

\* Key::read.  k is the kernel's state at the size call, k2 at the fill
\* call: another thread's call may have come between the two.
Key_read(k, id, k2) ==
    LET r1 == keyctl_read(k, id, 0) IN
    IF r1.ret = -1 THEN {Out(Err(r1.errno), k)}
    ELSE LET sz == r1.ret
             r2 == keyctl_read(k2, id, sz)
         IN IF r2.ret = -1 THEN {Out(Err(r2.errno), k2)}
            ELSE {Out(v, k2) : v \in set_len(r2.buf, sz, r2.ret, JunkBytes)}

Key_update(k, id, data) ==
    LET r == keyctl_update(k, id, data) IN Out(check_call(r, Unit), r.k)

(* ------------------------------------------------------------------ *)
(* Keyring                                                            *)
(* ------------------------------------------------------------------ *)

\* clear that issues no call.
Keyring_clear_nocall(k, id) == Out(Ok(Unit), k)

Keyring_clear(k, id) ==
    LET r == keyctl_clear(k, id) IN Out(check_call(r, Unit), r.k)

Keyring_link_key(k, id, key) ==
    LET r == keyctl_link(k, key, id) IN Out(check_call(r, Unit), r.k)

\* unlink_key that issues no call.
Keyring_unlink_key_nocall(k, id, key) == Out(Ok(Unit), k)

Keyring_unlink_key(k, id, key) ==
    LET r == keyctl_unlink(k, key, id) IN Out(check_call(r, Unit), r.k)

\* Key::new, Keyring::new: the handle of a serial.
Key(id) == [id |-> id]

\* add_key_impl that passes the payload's length less one.
Keyring_add_key_short(k, id, type, desc, payload) ==
    LET r == add_key(k, type, desc, SubSeq(payload, 1, Len(payload) - 1), id)
    IN Out(check_call(r, Key(r.ret)), r.k)

\* add_key_impl that wraps its own serial, not the returned one.
Keyring_add_key_self(k, id, type, desc, payload) ==
    LET r == add_key(k, type, desc, payload, id) IN Out(check_call(r, Key(id)), r.k)

\* add_key_impl: the key type K gives the type's name, the description's
\* bytes and the payload's bytes.
Keyring_add_key(k, id, type, desc, payload) ==
    LET r == add_key(k, type, desc, payload, id)
    IN Out(check_call(r, Key(r.ret)), r.k)

Keyring_add_keyring(k, id, desc) == Keyring_add_key(k, id, TypeKeyring, desc, <<>>)

Keyring_revoke(k, id) ==
    LET r == keyctl_revoke(k, id) IN Out(check_call(r, Unit), r.k)

Keyring_invalidate(k, id) ==
    LET r == keyctl_invalidate(k, id) IN Out(check_call(r, Unit), r.k)

Keyring_set_permissions(k, id, perms) ==
    LET r == keyctl_setperm(k, id, perms) IN Out(check_call(r, Unit), r.k)

\* chown that passes 0 for the group.
Keyring_chown_zero(k, id, uid) ==
    LET r == keyctl_chown(k, id, uid, U32Zero) IN Out(check_call(r, Unit), r.k)

Keyring_chown(k, id, uid) ==
    LET r == keyctl_chown(k, id, uid, NoChange) IN Out(check_call(r, Unit), r.k)

Keyring_chgrp(k, id, gid) ==
    LET r == keyctl_chown(k, id, NoChange, gid) IN Out(check_call(r, Unit), r.k)

Keyring_set_timeout(k, id, timeout) ==
    LET r == keyctl_set_timeout(k, id, timeout) IN Out(check_call(r, Unit), r.k)

\* Key::chown, Key::chgrp: Keyring::new(self.id).chown(uid), .chgrp(gid)
Key_chown(k, id, uid) == Keyring_chown(k, Key(id).id, uid)

Key_chgrp(k, id, gid) == Keyring_chgrp(k, Key(id).id, gid)

\* description_raw: the record without its terminator.  from_utf8().unwrap()
\* panics on bytes that are no UTF-8, which memory the kernel did not write
\* may be.
Keyring_description_raw(k, id, k2) ==
    LET r1 == keyctl_describe(k, id, 0) IN
    IF r1.ret = -1 THEN {Out(Err(r1.errno), k)}
    ELSE LET sz == r1.ret
             r2 == keyctl_describe(k2, id, sz)
         IN IF r2.ret = -1 THEN {Out(Err(r2.errno), k2)}
            ELSE LET new_len == r2.ret - 1
                     past    == new_len < 0 \/ new_len > Len(r2.buf)
                 IN {Out(v, k2) : v \in set_len(r2.buf, sz, new_len, JunkChars)}
                    \cup (IF past THEN {Out(Panic, k2)} ELSE {})

\* The closure of description: Description::parse(desc).ok_or(EINVAL); a
\* panic of the parser is the caller's.
parse_ok_or(desc) ==
    LET d == Description_parse(desc) IN
    IF d = None THEN Err("EINVAL")
    ELSE IF d = Panic THEN Panic
    ELSE Ok(d)

\* description: description_raw().and_then(...)
Keyring_description(k, id, k2) ==
    {IF o.res.tag # "Ok" THEN o ELSE Out(parse_ok_or(o.res.val), o.k)
       : o \in Keyring_description_raw(k, id, k2)}

\* A key_serial_t from its four bytes.
SerialOf(b) == b[1] + 256 * b[2] + 65536 * b[3] + 16777216 * b[4]

\* The whole serials among the bytes the kernel wrote.
SerialsIn(buf) ==
    [i \in 1..(Len(buf) \div SizeOfSerial) |->
        SerialOf(SubSeq(buf, SizeOfSerial * (i - 1) + 1, SizeOfSerial * i))]

\* What memory the kernel did not write may hold, read as serials.
JunkSerials == 0..MaxSerial

\* The closure of read's partition for one child, with the kernel at k:
\* key.description().unwrap().type_ == "keyring", or "panic".
IsKeyring(k, id) ==
    LET o == CHOOSE o \in Keyring_description(k, id, k) : TRUE IN
    IF o.res.tag # "Ok" THEN "panic"
    ELSE IF o.res.val.type_ = TypeKeyring THEN "yes" ELSE "no"

\* The partition of the enumerated serials: (keys, keyrings), or the panic
\* of the first unwrap that meets a failed description.
partition(k, ids) ==
    LET is == [i \in 1..Len(ids) |-> IsKeyring(k, ids[i])]
        Pick[i \in 0..Len(ids)] ==
            IF i = 0 THEN <<<<>>, <<>>>>
            ELSE IF is[i] = "yes" THEN <<Pick[i - 1][1], Append(Pick[i - 1][2], ids[i])>>
            ELSE <<Append(Pick[i - 1][1], ids[i]), Pick[i - 1][2]>>
    IN IF \E i \in 1..Len(ids) : is[i] = "panic" THEN Panic
       ELSE Ok([keys |-> Pick[Len(ids)][1], keyrings |-> Pick[Len(ids)][2]])

\* Keyring::read.  k is the kernel's state at the size call, k2 at the fill
\* call, k3 when the children are described.
Keyring_read(k, id, k2, k3) ==
    LET r1 == keyctl_read(k, id, 0) IN
    IF r1.ret = -1 THEN {Out(Err(r1.errno), k)}
    ELSE LET sz  == r1.ret
             cap == sz \div SizeOfSerial
             r2  == keyctl_read(k2, id, sz)
         IN IF r2.ret = -1 THEN {Out(Err(r2.errno), k2)}
            ELSE {IF v = Fault THEN Out(Fault, k2) ELSE Out(partition(k3, v.val), k3)
                    : v \in set_len(SerialsIn(r2.buf), cap,
                                    r2.ret \div SizeOfSerial, JunkSerials)}

(* ------------------------------------------------------------------ *)
(* The state: the kernel, the program's last call with its result,    *)
(* and the number of calls made                                       *)
(* ------------------------------------------------------------------ *)

\* input and parsed are the decoder's: a record the kernel may hand out and
\* what description makes of it.
VARIABLES kernel, last, ncalls, input, parsed, managers, authority, resolving,
          request

vars == <<kernel, last, ncalls, input, parsed, managers, authority, resolving,
          request>>

\* The KeyManager values, the request the thread has authority over, the
\* resolving calls issued, and another thread's request_key call.
mvars == <<managers, authority, resolving, request>>

\* The KeyManager values of one run.
MaxManagers == 3

Slots == 1..MaxManagers

\* A KeyManager value: no value yet, a value the program holds, or one a
\* resolving method has taken (self, by value).  `from` is the manage call
\* the value, or the value it was cloned from, came out of.
NoManager == [state |-> "none", key |-> 0, from |-> 0]

\* A thread's fallback request: not made, "waiting" in the kernel for the
\* key `key` to be constructed, or "returned" with the result res.
NoRequest ==
    [state |-> "none", type |-> <<>>, desc |-> <<>>, ring |-> 0, key |-> 0,
     res |-> [tag |-> "none"]]

NoManagers ==
    /\ managers = [m \in Slots |-> NoManager]
    /\ authority = 0
    /\ resolving = [m \in Slots |-> 0]
    /\ request = NoRequest

\* The calls of one run.
MaxCalls == 3

\* raced: whether another thread's call came in during the call, and where:
\* "fill" before the fill call, "children" before the children are described.
Call(op, id, arg, res, raced) ==
    [op |-> op, id |-> id, arg |-> arg, res |-> res, raced |-> raced]

NoCall == Call("none", 0, <<>>, Ok(Unit), "no")

\* The thread keyring the program attached to, empty.
RootDesc == <<"_", "t", "i", "d">>

InitKernel ==
    [obj |-> [s \in Serials |->
                IF s = 1 THEN NewObj(TypeKeyring, RootDesc, <<>>) ELSE NoObj],
     links |-> [s \in Serials |-> <<>>]]

NoInput == [kind |-> "none", text |-> <<>>]
Pending == [tag |-> "pending"]

Init ==
    /\ kernel = InitKernel
    /\ last = NoCall
    /\ ncalls = 0
    /\ input = NoInput
    /\ parsed = Pending
    /\ NoManagers

\* The serials the program holds handles of.
Handles == {s \in Serials : kernel.obj[s].state # "none"}
KeyringHandles == {s \in Handles : kernel.obj[s].type = TypeKeyring}
KeyHandles == {s \in Handles : kernel.obj[s].type # TypeKeyring}

\* The kernel's states one call of another thread later, or none: the
\* calls that name `id` or a child of it.
After(k, id) ==
    LET near == {id} \cup Range(k.links[id]) IN
    {k, Collected(k)}
    \cup {keyctl_update(k, c, p).k : c \in near, p \in Payloads}
    \cup {keyctl_invalidate(k, c).k : c \in near}
    \cup {keyctl_revoke(k, c).k : c \in near}
    \cup {keyctl_unlink(k, c, id).k : c \in near}
    \cup {add_key(k, TypeUser, <<"d">>, <<1>>, id).k}
    \cup {keyctl_chown(k, id, U32(1000), NoChange).k}

Does(op, id, arg, o, raced) ==
    /\ ncalls < MaxCalls
    /\ ncalls' = ncalls + 1
    /\ kernel' = o.k
    /\ last' = Call(op, id, arg, o.res, raced)
    /\ UNCHANGED <<input, parsed, mvars>>

AddKey ==
    \E id \in KeyringHandles, d \in Descs, p \in Payloads :
        Does("add_key", id, <<TypeUser, d, p>>,
             Keyring_add_key(kernel, id, TypeUser, d, p), "no")

AddKeyring ==
    \E id \in KeyringHandles, d \in Descs :
        Does("add_key", id, <<TypeKeyring, d, <<>> >>,
             Keyring_add_keyring(kernel, id, d), "no")

Update ==
    \E id \in KeyHandles, p \in Payloads :
        Does("update", id, <<p>>, Key_update(kernel, id, p), "no")

KeyRead ==
    /\ ncalls < MaxCalls
    /\ \E id \in KeyHandles :
        \E k2 \in After(kernel, id) :
            \E o \in Key_read(kernel, id, k2) :
                Does("key_read", id, <<>>, o, IF o.k = kernel THEN "no" ELSE "fill")

Clear ==
    \E id \in KeyringHandles :
        Does("clear", id, <<>>, Keyring_clear(kernel, id), "no")

LinkKey ==
    \E id \in KeyringHandles, key \in Handles :
        Does("link", id, <<key>>, Keyring_link_key(kernel, id, key), "no")

UnlinkKey ==
    \E id \in KeyringHandles, key \in Handles :
        Does("unlink", id, <<key>>, Keyring_unlink_key(kernel, id, key), "no")

\* At most one call of another thread comes in between.
KeyringRead ==
    /\ ncalls < MaxCalls
    /\ \E id \in KeyringHandles :
        \E k2 \in After(kernel, id) :
            \E k3 \in (IF k2 = kernel THEN After(k2, id) ELSE {k2}) :
                \E o \in Keyring_read(kernel, id, k2, k3) :
                    Does("read", id, <<>>, o,
                         IF o.k = kernel THEN "no"
                         ELSE IF k2 # kernel THEN "fill" ELSE "children")

Describe ==
    /\ ncalls < MaxCalls
    /\ \E id \in Handles :
        \E k2 \in After(kernel, id) :
            \E o \in Keyring_description(kernel, id, k2) :
                Does("description", id, <<>>, o, IF o.k = kernel THEN "no" ELSE "fill")

Revoke ==
    \E id \in Handles : Does("revoke", id, <<>>, Keyring_revoke(kernel, id), "no")

Invalidate ==
    \E id \in Handles :
        Does("invalidate", id, <<>>, Keyring_invalidate(kernel, id), "no")

SetPermissions ==
    \E id \in Handles, perms \in Perms :
        Does("set_permissions", id, <<perms>>,
             Keyring_set_permissions(kernel, id, perms), "no")

\* The kernel's collector runs.
Collect ==
    /\ kernel' = Collected(kernel)
    /\ kernel' # kernel
    /\ UNCHANGED <<last, ncalls, input, parsed, mvars>>

Next ==
    \/ AddKey \/ AddKeyring \/ Update \/ KeyRead \/ Clear \/ LinkKey \/ UnlinkKey
    \/ KeyringRead \/ Describe \/ Revoke \/ Invalidate \/ SetPermissions \/ Collect

Spec == Init /\ [][Next]_vars

(* ------------------------------------------------------------------ *)
(* The decoder on the records a kernel may hand out                   *)
(* ------------------------------------------------------------------ *)

\* A record has at most MaxFields fields, MaxLead of them in front of the
\* five known ones.
MaxFields == 5
MaxLead == 1

SeqsUpTo(S, lo, hi) == UNION {[1..n -> S] : n \in lo..hi}

\* 2^32 in decimal.
DecOver == <<"4", "2", "9", "4", "9", "6", "7", "2", "9", "6">>

\* The fields a record is tried with: empty, a digit, a hexadecimal digit, a
\* letter, a signed number, a number of 33 bits.
Fields == {<<>>, <<"1">>, <<"f">>, <<"u">>, <<"+", "7">>, <<"-", "1">>, DecOver}

\* The values a well-formed record is made of.
Ids == {U32Zero, U32(1000), <<Half - 1, Half - 1>>}
Masks == {PermDefault, PermNone, <<Half - 1, Half - 1>>}
PlainDescs == {<<>>, <<"d">>, <<"1", "0">>}
LeadFields == {<<>>, <<"x">>, <<"7">>}

\* type;uid;gid;perm;description as the kernel prints it, behind the fields
\* a later kernel may put in front.
WellFormed ==
    {[kind |-> "record", lead |-> l, type |-> t, uid |-> u, gid |-> g,
      perm |-> p, desc |-> d,
      text |-> Join(l \o <<t, FmtDec(u), FmtDec(g), FmtHex8(p), d>>)]
        : l \in SeqsUpTo(LeadFields, 0, MaxLead), t \in Types, u \in Ids,
          g \in Ids, p \in Masks, d \in PlainDescs}

\* Any fields at all.
Arbitrary ==
    {[kind |-> "fields", fields |-> fs, text |-> Join(fs)]
        : fs \in SeqsUpTo(Fields, 1, MaxFields)}

InitParse ==
    /\ kernel = InitKernel
    /\ last = NoCall
    /\ ncalls = 0
    /\ input \in WellFormed \cup Arbitrary
    /\ parsed = Pending
    /\ NoManagers

\* description's second half on the record: what the caller gets.
Parse ==
    /\ parsed = Pending
    /\ parsed' = parse_ok_or(input.text)
    /\ UNCHANGED <<kernel, last, ncalls, input, mvars>>

NextParse == Parse

SpecParse == InitParse /\ [][NextParse]_vars

(* ------------------------------------------------------------------ *)
(* KeyManager: answering a key request                                *)
(* ------------------------------------------------------------------ *)

\* A key under construction: a request for it waits for an answer.
RequestedObj == [NewObj(TypeUser, <<"d">>, <<>>) EXCEPT !.state = "pending"]

\* The kernel holds the root keyring, a requested key and a key in the
\* root keyring.
InitManageKernel ==
    [obj |-> [s \in Serials |->
                IF s = 1 THEN NewObj(TypeKeyring, RootDesc, <<>>)
                ELSE IF s = 2 THEN RequestedObj
                ELSE IF s = 3 THEN NewObj(TypeUser, <<"a">>, <<1>>)
                ELSE NoObj],
     links |-> [s \in Serials |-> IF s = 1 THEN <<3>> ELSE <<>>]]

\* The kernel calls: the outcome carries the authority after the call.
keyctl_assume_authority(k, auth, id) ==
    IF id \in Serials /\ k.obj[id].state = "pending"
    THEN Done(k, 0) @@ [auth |-> id]
    ELSE Fail(k, "ESRCH") @@ [auth |-> auth]

\* The answer: the key as it is once the request is answered.
Answered(k, auth, id, obj, ring) ==
    LET er == LookupKeyring(k, ring, WRITE) IN
    IF auth # id \/ id \notin Serials THEN Fail(k, "EPERM") @@ [auth |-> auth]
    ELSE IF k.obj[id].state # "pending" THEN Fail(k, "EBUSY") @@ [auth |-> auth]
    ELSE IF er # "OK" THEN Fail(k, er) @@ [auth |-> auth]
    ELSE Done(Linked([k EXCEPT !.obj[id] = obj], id, ring), 0) @@ [auth |-> 0]

keyctl_instantiate(k, auth, id, payload, ring) ==
    Answered(k, auth, id,
             IF id \in Serials
             THEN [k.obj[id] EXCEPT !.state = "live", !.payload = payload]
             ELSE NoObj, ring)

keyctl_reject(k, auth, id, timeout, error, ring) ==
    Answered(k, auth, id,
             IF id \in Serials
             THEN [k.obj[id] EXCEPT !.state = "negative", !.error = error]
             ELSE NoObj, ring)

keyctl_negate(k, auth, id, timeout, ring) ==
    keyctl_reject(k, auth, id, timeout, "ENOKEY", ring)

Timeouts == {0, 5}
Errors == {"EKEYEXPIRED", "EKEYREJECTED"}

InitManage ==
    /\ kernel = InitManageKernel
    /\ last = NoCall
    /\ ncalls = 0
    /\ input = NoInput
    /\ parsed = Pending
    /\ NoManagers

FreeSlots == {m \in Slots : managers[m].state = "none"}
NewSlot == CHOOSE m \in FreeSlots : \A n \in FreeSlots : m <= n
HeldManagers == {m \in Slots : managers[m].state = "held"}

\* Key::manage: on success the caller gets a new KeyManager value.
Manage ==
    \E id \in KeyHandles :
        LET r == keyctl_assume_authority(kernel, authority, id)
            res == check_call(r, [manager |-> NewSlot])
        IN /\ FreeSlots # {}
           /\ authority' = r.auth
           /\ kernel' = r.k
           /\ managers' = IF res.tag = "Ok"
                          THEN [managers EXCEPT ![NewSlot] =
                                   [state |-> "held", key |-> id, from |-> NewSlot]]
                          ELSE managers
           /\ last' = Call("manage", id, <<>>, res, "no")
           /\ UNCHANGED <<ncalls, input, parsed, resolving, request>>

\* #[derive(Clone)]: a second value with the same key.
CloneManager ==
    \E m \in HeldManagers :
        /\ FreeSlots # {}
        /\ managers' = [managers EXCEPT ![NewSlot] = managers[m]]
        /\ last' = Call("clone", managers[m].key, <<m>>, Ok([manager |-> NewSlot]), "no")
        /\ UNCHANGED <<kernel, ncalls, input, parsed, authority, resolving, request>>

\* A resolving method takes the value m (self) and issues the call r.
Resolves(op, m, arg, r) ==
    /\ managers' = [managers EXCEPT ![m].state = "taken"]
    /\ resolving' = [resolving EXCEPT ![managers[m].from] = @ + 1]
    /\ authority' = r.auth
    /\ kernel' = r.k
    /\ last' = Call(op, managers[m].key, <<m>> \o arg, check_call(r, Unit), "no")
    /\ UNCHANGED <<ncalls, input, parsed, request>>

Instantiate ==
    \E m \in HeldManagers, keyring \in KeyringHandles, payload \in Payloads :
        Resolves("instantiate", m, <<keyring, payload>>,
                 keyctl_instantiate(kernel, authority, managers[m].key,
                                    payload, keyring))

Reject ==
    \E m \in HeldManagers, keyring \in KeyringHandles, timeout \in Timeouts,
       error \in Errors :
        Resolves("reject", m, <<keyring, timeout, error>>,
                 keyctl_reject(kernel, authority, managers[m].key, timeout,
                               error, keyring))

Negate ==
    \E m \in HeldManagers, keyring \in KeyringHandles, timeout \in Timeouts :
        Resolves("negate", m, <<keyring, timeout>>,
                 keyctl_negate(kernel, authority, managers[m].key, timeout,
                               keyring))

NextManage == Manage \/ CloneManager \/ Instantiate \/ Reject \/ Negate

SpecManage == InitManage /\ [][NextManage]_vars

(* ------------------------------------------------------------------ *)
(* The fallback request: a thread asks for a key and the kernel has    *)
(* it constructed                                                     *)
(* ------------------------------------------------------------------ *)

\* The objects a request finds: those of the type and description below the
\* thread keyring (serial 1) that grant search, a rejected one included.
Found(k, type, desc) ==
    IF Lookup(k, 1, SEARCH) # "OK" THEN {}
    ELSE {c \in Reach(k, Range(k.links[1]), MaxSerial) :
             /\ k.obj[c].type = type /\ k.obj[c].desc = desc
             /\ k.obj[c].state \in {"live", "negative"}
             /\ HasPerm(k.obj[c].perm, SEARCH)}

\* Marks an outcome of request_key as returned at once.
Now(r) == r @@ [blocked |-> FALSE, key |-> 0]

\* request_key(type, description, info, keyring) with info given, up to
\* where the call returns or blocks: a key found is linked into the keyring
\* and returned, a rejected key found answers with its error, and on a miss
\* a key under construction is made, the helper is started with info, and
\* the call blocks.
request_key_begin(k, type, desc, ring) ==
    LET er    == LookupKeyring(k, ring, WRITE)
        found == Found(k, type, desc)
    IN IF er # "OK" THEN Now(Fail(k, er))
       ELSE IF found # {} THEN
           LET c == CHOOSE c \in found : \A d \in found : c <= d IN
           IF k.obj[c].state = "negative" THEN Now(Fail(k, k.obj[c].error))
           ELSE Now(Done(Linked(k, c, ring), c))
       ELSE IF FreeSerials(k) = {} THEN Now(Fail(k, "EDQUOT"))
       ELSE LET s == CHOOSE s \in FreeSerials(k) : \A t \in FreeSerials(k) : s <= t IN
            [ret |-> 0, errno |-> "", blocked |-> TRUE, key |-> s,
             k |-> [k EXCEPT !.obj[s] = [NewObj(type, desc, <<>>) EXCEPT !.state = "pending"],
                             !.links[s] = <<>>]]

\* The blocked call's return: the constructed key's serial, linked into the
\* keyring, or the error the key was rejected with.
request_key_end(k, key, ring) ==
    IF k.obj[key].state = "live"
    THEN Done(IF LookupKeyring(k, ring, WRITE) = "OK" THEN Linked(k, key, ring) ELSE k,
              key)
    ELSE Fail(k, k.obj[key].error)

\* request_fallback_impl: r is the outcome of the one call
\* request_key(type, description, info, self.id).
Keyring_request_fallback_impl(r) == check_call_ret_serial(r)

\* request_key_with_fallback that wraps whatever the call returned.
Keyring_request_with_fallback_unchecked(r) == Ok(Key(r.ret))

\* request_key_with_fallback and request_keyring_with_fallback: the handle
\* of the serial returned.
Keyring_request_with_fallback(r) ==
    LET res == Keyring_request_fallback_impl(r) IN
    IF res.tag # "Ok" THEN res ELSE check_call(r, Key(res.val))

\* The kernels a request is made in: the thread keyring empty, holding a
\* key, or holding a key an earlier request for it was rejected with.
RequestKernels ==
    {InitKernel} \cup {add_key(InitKernel, TypeUser, d, <<1>>, 1).k : d \in Descs}
    \cup {[InitKernel EXCEPT
              !.obj[2] = [NewObj(TypeUser, <<"d">>, <<>>) EXCEPT
                             !.state = "negative", !.error = "EKEYREJECTED"],
              !.links[1] = <<2>>]}

InitRequest ==
    /\ kernel \in RequestKernels
    /\ last = NoCall
    /\ ncalls = 0
    /\ input = NoInput
    /\ parsed = Pending
    /\ NoManagers

\* The thread's call, up to its return or to where it blocks.
Requests(type, desc, ring) ==
    LET r == request_key_begin(kernel, type, desc, ring) IN
    /\ request.state = "none"
    /\ kernel' = r.k
    /\ request' = [state |-> IF r.blocked THEN "waiting" ELSE "returned",
                   type |-> type, desc |-> desc, ring |-> ring, key |-> r.key,
                   res |-> IF r.blocked THEN [tag |-> "none"]
                           ELSE Keyring_request_with_fallback(r)]
    /\ UNCHANGED <<last, ncalls, input, parsed, managers, authority, resolving>>

RequestKeyWithFallback ==
    \E id \in KeyringHandles, d \in Descs : Requests(TypeUser, d, id)

RequestKeyringWithFallback ==
    \E id \in KeyringHandles, d \in Descs : Requests(TypeKeyring, d, id)

\* The blocked call returns: the kernel lets it once the key is no longer
\* under construction.
RequestReturns ==
    /\ request.state = "waiting"
    /\ kernel.obj[request.key].state # "pending"
    /\ LET r == request_key_end(kernel, request.key, request.ring) IN
         /\ kernel' = r.k
         /\ request' = [request EXCEPT !.state = "returned",
                                       !.res = Keyring_request_with_fallback(r)]
    /\ UNCHANGED <<last, ncalls, input, parsed, managers, authority, resolving>>

\* The helper, or another thread, answers through a KeyManager.
NextRequest ==
    \/ RequestKeyWithFallback \/ RequestKeyringWithFallback \/ RequestReturns
    \/ Manage \/ CloneManager \/ Instantiate \/ Reject \/ Negate

SpecRequest == InitRequest /\ [][NextRequest]_vars

(* ------------------------------------------------------------------ *)
(* Ownership: chown and chgrp through both handles                    *)
(* ------------------------------------------------------------------ *)

\* The thread keyring holds a key.
InitOwner ==
    /\ kernel = add_key(InitKernel, TypeUser, <<"d">>, <<1>>, 1).k
    /\ last = NoCall
    /\ ncalls = 0
    /\ input = NoInput
    /\ parsed = Pending
    /\ NoManagers

\* chown and chgrp are tried with the ids of the decoder's records: root,
\* a user, and !0.
Chown ==
    \E id \in KeyringHandles, uid \in Ids :
        Does("chown", id, <<uid>>, Keyring_chown(kernel, id, uid), "no")

Chgrp ==
    \E id \in KeyringHandles, gid \in Ids :
        Does("chgrp", id, <<gid>>, Keyring_chgrp(kernel, id, gid), "no")

KeyChown ==
    \E id \in KeyHandles, uid \in Ids :
        Does("chown", id, <<uid>>, Key_chown(kernel, id, uid), "no")

KeyChgrp ==
    \E id \in KeyHandles, gid \in Ids :
        Does("chgrp", id, <<gid>>, Key_chgrp(kernel, id, gid), "no")

SetTimeout ==
    \E id \in Handles, timeout \in Timeouts :
        Does("set_timeout", id, <<timeout>>,
             Keyring_set_timeout(kernel, id, timeout), "no")

NextOwner ==
    \/ Chown \/ Chgrp \/ KeyChown \/ KeyChgrp \/ SetTimeout \/ SetPermissions
    \/ Revoke

SpecOwner == InitOwner /\ [][NextOwner]_vars

(* ------------------------------------------------------------------ *)
(* Properties of Spec                                                 *)
(* ------------------------------------------------------------------ *)

Succeeded == last.res.tag = "Ok"

\* Key::read of `id`, no other thread's call coming in, returns the bytes p.
ReadsBack(id, p) ==
    \A o \in Key_read(kernel, id, kernel) : o.res.tag = "Ok" /\ o.res.val = p

CanRead(id) == HasPerm(kernel.obj[id].perm, READ)

\* C1 as stated: after a successful add_key(d, p) returning k, k.read()
\* succeeds and returns exactly p; after a successful k.update(q), k.read()
\* returns exactly q.
C1_RoundTrip ==
    /\ (last.op = "add_key" /\ Succeeded) => ReadsBack(last.res.val.id, last.arg[3])
    /\ (last.op = "update" /\ Succeeded) => ReadsBack(last.id, last.arg[1])

\* C1 amended: the same for a key that grants read permission.
C1_RoundTripReadable ==
    /\ (last.op = "add_key" /\ Succeeded /\ CanRead(last.res.val.id))
          => ReadsBack(last.res.val.id, last.arg[3])
    /\ (last.op = "update" /\ Succeeded /\ CanRead(last.id))
          => ReadsBack(last.id, last.arg[1])

\* An update of a key made by an earlier add_key has succeeded, and the read
\* returns the two bytes written.
C1_Witness ==
    /\ last.op = "update" /\ Succeeded /\ CanRead(last.id)
    /\ last.arg[1] = <<1, 2>>
    /\ ReadsBack(last.id, <<1, 2>>)

\* Keyring::read of `id`, no other thread's call coming in, returns two
\* empty collections.
ReadsEmpty(id) ==
    Keyring_read(kernel, id, kernel, kernel) = {Out(Ok([keys |-> <<>>, keyrings |-> <<>>]), kernel)}

\* C3 as stated: a successful K.clear() immediately followed by K.read()
\* returns two empty collections.
C3_ClearThenRead == (last.op = "clear" /\ Succeeded) => ReadsEmpty(last.id)

\* C3 amended: the same for a keyring that grants read permission.
C3_ClearThenReadReadable ==
    (last.op = "clear" /\ Succeeded /\ CanRead(last.id)) => ReadsEmpty(last.id)

\* The second call cleared the keyring the first call put an object into.
C3_Witness ==
    /\ last.op = "clear" /\ Succeeded /\ CanRead(last.id)
    /\ ncalls = 2
    /\ \E s \in Serials : s # last.id /\ kernel.obj[s].state = "live"
    /\ ReadsEmpty(last.id)

\* C4: after a successful add_key(d, p) returning k, k.description()
\* succeeds and its description field is d, also for a d that holds ";".
C4_DescriptionRoundTrip ==
    (last.op = "add_key" /\ Succeeded) =>
        \A o \in Keyring_description(kernel, last.res.val.id, kernel) :
            o.res.tag = "Ok" /\ o.res.val.description = last.arg[2]

\* C7: Keyring::read returns a result, the collections or a failure, and
\* does not abort, when no call came in before its fill call (one may have
\* come in between the enumeration and a child's description).
C7_ReadFailsWhole ==
    (last.op = "read" /\ last.raced # "fill") => last.res.tag \in {"Ok", "Err"}

\* C8: Key::read completes without fault whatever the fill call reports, and
\* returns no more bytes than the buffer allocated from the size call holds.
C8_NoOverread ==
    last.op = "key_read" =>
        /\ last.res.tag \in {"Ok", "Err"}
        /\ last.res.tag = "Ok" => Len(last.res.val) <= last.res.cap

\* The second of two add_key calls: the step that made the call `last'` and
\* the live children of its keyring that had its type and description
\* before.
AddsKey == last'.op = "add_key" /\ ncalls' = ncalls + 1

Held ==
    {c \in Matching(kernel, last'.id, last'.arg[1], last'.arg[2]) :
        kernel.obj[c].state = "live"}

\* After the step, k1 and the returned handle read the payload passed and
\* the keyring has one child of that type and description.
UpdatedInPlace(k1) ==
    /\ \A o \in Key_read(kernel', k1, kernel') :
           o.res.tag = "Ok" /\ o.res.val = last'.arg[3]
    /\ \A o \in Key_read(kernel', last'.res.val.id, kernel') :
           o.res.tag = "Ok" /\ o.res.val = last'.arg[3]
    /\ Cardinality(Matching(kernel', last'.id, last'.arg[1], last'.arg[2])) = 1

\* C2 as stated: if keyring K holds a live key k1 of type t and description d, a
\* second (successful) K.add_key of that type and description with payload
\* p2 updates k1 in place: k1.read() and the returned handle's read() give
\* p2 and K has exactly one child of that type and description.
C2_UpdateInPlace ==
    [][(AddsKey /\ last'.res.tag = "Ok") => \A k1 \in Held : UpdatedInPlace(k1)]_vars

\* k1 is of the type user and grants write and read permission.
Updatable(k1) ==
    /\ kernel.obj[k1].type = TypeUser
    /\ HasPerm(kernel.obj[k1].perm, WRITE)
    /\ HasPerm(kernel.obj[k1].perm, READ)

\* C2 amended: the same for a k1 of the type user that grants write and
\* read permission; the handle returned is then k1's.
C2_UpdateInPlaceUpdatable ==
    [][(AddsKey /\ last'.res.tag = "Ok") =>
          \A k1 \in Held : Updatable(k1) =>
              (last'.res.val = Key(k1) /\ UpdatedInPlace(k1))]_vars

\* An add_key returned a key older than another object (so one that existed
\* before the call), and the key reads the two bytes passed.
C2_Witness ==
    /\ last.op = "add_key" /\ Succeeded
    /\ last.arg[1] = TypeUser /\ last.arg[3] = <<1, 2>>
    /\ \E s \in Serials : s > last.res.val.id /\ kernel.obj[s].state # "none"
    /\ ReadsBack(last.res.val.id, <<1, 2>>)
    /\ Cardinality(Matching(kernel, last.id, last.arg[1], last.arg[2])) = 1

Dead(s) == kernel.obj[s].state \in {"revoked", "invalid"}

Failed(o) == o.res.tag = "Err"

\* C10: once a serial is revoked or invalidated, every operation through a
\* handle that carries it (read, description, update, clear, link_key,
\* unlink_key, add_key, revoke, invalidate, set_permissions, and link_key
\* of it into another keyring) returns a failure, also when another
\* thread's call comes in during the operation.
C10_DeadSerialFails ==
    \A s \in Serials : Dead(s) =>
        /\ \A k2 \in After(kernel, s) :
             /\ \A o \in Key_read(kernel, s, k2) : Failed(o)
             /\ \A o \in Keyring_description(kernel, s, k2) : Failed(o)
             /\ \A o \in Keyring_read(kernel, s, k2, k2) : Failed(o)
        /\ \A p \in Payloads : Failed(Key_update(kernel, s, p))
        /\ Failed(Keyring_clear(kernel, s))
        /\ \A key \in Serials :
             /\ Failed(Keyring_link_key(kernel, s, key))
             /\ Failed(Keyring_unlink_key(kernel, s, key))
             /\ Failed(Keyring_link_key(kernel, key, s))
        /\ \A d \in Descs :
             /\ \A p \in Payloads : Failed(Keyring_add_key(kernel, s, TypeUser, d, p))
             /\ Failed(Keyring_add_keyring(kernel, s, d))
        /\ Failed(Keyring_revoke(kernel, s))
        /\ Failed(Keyring_invalidate(kernel, s))
        /\ \A m \in Perms : Failed(Keyring_set_permissions(kernel, s, m))

\* A key was revoked and the read that followed failed with the kernel's
\* error.
C10_Witness ==
    /\ last.op = "key_read" /\ last.raced = "no"
    /\ last.res = Err("EKEYREVOKED")
    /\ kernel.obj[last.id].state = "revoked"
    /\ kernel.obj[last.id].payload # <<>>

\* The step that made the unlink_key call `last'`, which succeeded.
Unlinks == last'.op = "unlink" /\ ncalls' = ncalls + 1 /\ last'.res.tag = "Ok"

\* The serials in the collections a read returned.
Listed(res) == Range(res.val.keys) \cup Range(res.val.keyrings)

\* Keyring::read of `id` with the kernel at k, no other thread's call
\* coming in.
ReadAt(k, id) == Keyring_read(k, id, k, k)

\* The collections `new` are the collections `old` without the serial key.
SameBut(old, new, key) ==
    /\ new.val.keys = Without(old.val.keys, key)
    /\ new.val.keyrings = Without(old.val.keyrings, key)

Reads == last'.op = "read" /\ ncalls' = ncalls + 1 /\ last'.res.tag = "Ok"

\* The serials the kernel enumerated for the read `last'`: the keyring's
\* children at the fill call, which another thread's call may have followed.
Enumerated ==
    IF last'.raced = "children" THEN kernel.links[last'.id]
    ELSE kernel'.links[last'.id]

\* How often x occurs in seq.
Count(seq, x) == Cardinality({i \in 1..Len(seq) : seq[i] = x})

\* The type tag of the description the kernel reports of an object.
TypeTag(o) == Head(split(DescribeRecord(o)))

\* C13: on success, every serial the kernel enumerated for the keyring is
\* in exactly one of the two collections, once; it is in the keyrings
\* collection if and only if its description's type tag is "keyring"; and
\* no other serial is in either collection.
C13_PartitionsExactly ==
    [][Reads =>
          \A s \in JunkSerials :
              LET keys     == Count(last'.res.val.keys, s)
                  keyrings == Count(last'.res.val.keyrings, s)
              IN /\ keys + keyrings = Count(Enumerated, s)
                 /\ keys + keyrings <= 1
                 /\ keyrings = 1 => TypeTag(kernel'.obj[s]) = TypeKeyring
                 /\ keys = 1 => TypeTag(kernel'.obj[s]) # TypeKeyring]_vars

\* The step that made the description call `last'`; the kernel was at
\* kernel for its size call and at kernel' for its fill call.
Describes == last'.op = "description" /\ ncalls' = ncalls + 1

\* C14: when description_raw's fill call reports actual_sz, the raw string
\* has the length actual_sz - 1, which is not negative and not larger than
\* the buffer allocated from the size call's sz, also when actual_sz
\* differs from sz.
C14_TrimmedLength ==
    [][Describes =>
          LET sz        == keyctl_describe(kernel, last'.id, 0).ret
              actual_sz == keyctl_describe(kernel', last'.id, sz).ret
          IN (sz # -1 /\ actual_sz # -1) =>
                 /\ 0 <= actual_sz - 1 /\ actual_sz - 1 <= sz
                 /\ \A o \in Keyring_description_raw(kernel, last'.id, kernel') :
                        /\ o.res.tag = "Ok"
                        /\ Len(o.res.val) = actual_sz - 1
                        /\ Len(o.res.val) <= o.res.cap]_vars

\* The result the error mapping gives a call's outcome r: a failure with
\* the call's errno if r is -1, the success v if not.
Mapped(r, v) == IF r.ret = -1 THEN Err(r.errno) ELSE Ok(v)

\* The result of a buffer query whose size call had the outcome r1 and
\* whose fill call, if issued, the outcome r2: the failure of the first
\* call that failed, the fill call not being issued after a failed size
\* call, and no failure if neither failed (not looked at where the fill
\* call reports more than the buffer holds, C8).
MappedTwice(res, r1, r2) ==
    IF r1.ret = -1 THEN res = Err(r1.errno) /\ kernel' = kernel
    ELSE IF r2.ret = -1 THEN res = Err(r2.errno)
    ELSE IF r2.ret > r1.ret THEN TRUE
    ELSE res.tag # "Err"

\* The same for Keyring::read, which after its two calls describes the
\* children the fill call wrote.
MappedRead(c) ==
    LET r1  == keyctl_read(kernel, c.id, 0)
        r2  == keyctl_read(IF c.raced = "children" THEN kernel ELSE kernel',
                           c.id, r1.ret)
        ids == SerialsIn(r2.buf)
        bad == {i \in 1..Len(ids) : keyctl_describe(kernel', ids[i], 0).ret = -1}
    IN IF r1.ret = -1 \/ r2.ret = -1 THEN MappedTwice(c.res, r1, r2)
       ELSE IF r2.ret > r1.ret THEN TRUE
       ELSE IF bad = {} THEN c.res.tag # "Err"
       ELSE LET i == CHOOSE i \in bad : \A j \in bad : i <= j IN
            c.res = Err(keyctl_describe(kernel', ids[i], 0).errno)

\* C15: every operation returns a failure carrying the errno of its kernel
\* call if and only if that call returned -1, and otherwise, where its
\* value is the raw value, a handle or nothing, the success carrying it;
\* the errno is that of the call that failed; and after a failed size call
\* of a buffer query no fill call is issued.
C15_UniformErrorMapping ==
    [][ncalls' = ncalls + 1 =>
          LET c == last' IN
          CASE c.op = "add_key" ->
                   LET r == add_key(kernel, c.arg[1], c.arg[2], c.arg[3], c.id)
                   IN c.res = Mapped(r, Key(r.ret))
            [] c.op = "update" ->
                   c.res = Mapped(keyctl_update(kernel, c.id, c.arg[1]), Unit)
            [] c.op = "clear" -> c.res = Mapped(keyctl_clear(kernel, c.id), Unit)
            [] c.op = "link" ->
                   c.res = Mapped(keyctl_link(kernel, c.arg[1], c.id), Unit)
            [] c.op = "unlink" ->
                   c.res = Mapped(keyctl_unlink(kernel, c.arg[1], c.id), Unit)
            [] c.op = "revoke" -> c.res = Mapped(keyctl_revoke(kernel, c.id), Unit)
            [] c.op = "invalidate" ->
                   c.res = Mapped(keyctl_invalidate(kernel, c.id), Unit)
            [] c.op = "set_permissions" ->
                   c.res = Mapped(keyctl_setperm(kernel, c.id, c.arg[1]), Unit)
            [] c.op = "key_read" ->
                   LET r1 == keyctl_read(kernel, c.id, 0) IN
                   MappedTwice(c.res, r1, keyctl_read(kernel', c.id, r1.ret))
            [] c.op = "description" ->
                   LET r1 == keyctl_describe(kernel, c.id, 0) IN
                   MappedTwice(c.res, r1, keyctl_describe(kernel', c.id, r1.ret))
            [] c.op = "read" -> MappedRead(c)
            [] OTHER -> TRUE]_vars

(* ------------------------------------------------------------------ *)
(* Properties of SpecParse                                            *)
(* ------------------------------------------------------------------ *)

Decoded == parsed # Pending

\* C5: for a record of n >= 5 fields whose last five are
\* type;uid;gid;perm_hex;description, description gives exactly those five
\* (perm_hex read as hexadecimal), whatever the leading fields are.
C5_LastFiveFields ==
    (Decoded /\ input.kind = "record") =>
        parsed = Ok([tag |-> "Some", type_ |-> input.type, uid |-> input.uid,
                     gid |-> input.gid, perms |-> input.perm,
                     description |-> input.desc])

\* A record of six fields with a mask of eight f's was decoded.
C5_Witness ==
    /\ Decoded /\ input.kind = "record"
    /\ Len(input.lead) = 1 /\ input.lead[1] # <<>>
    /\ input.perm = <<Half - 1, Half - 1>>
    /\ parsed.tag = "Ok" /\ parsed.val.perms = input.perm
    /\ parsed.val.description = input.desc

\* The fields that are no decimal u32, and no hexadecimal u32.
NotDecimal == {<<>>, <<"f">>, <<"u">>, <<"-", "1">>, DecOver}
NotHex == {<<>>, <<"u">>, <<"-", "1">>, DecOver}

TooFew == input.kind = "fields" /\ Len(input.fields) < 5

BadNumber ==
    /\ input.kind = "fields" /\ Len(input.fields) >= 5
    /\ LET n == Len(input.fields) IN
         \/ input.fields[n - 3] \in NotDecimal
         \/ input.fields[n - 2] \in NotDecimal
         \/ input.fields[n - 1] \in NotHex

\* C6 as stated: description returns an error value, and does not abort,
\* for a record of fewer than 5 fields and for one whose uid, gid or
\* permission field does not parse as a number.
C6_MalformedIsError ==
    (Decoded /\ (TooFew \/ BadNumber)) => parsed.tag = "Err"

\* C6 amended: description returns the error EINVAL for a record of fewer
\* than 5 fields; it panics for a record of 5 fields or more whose uid, gid
\* or permission field does not parse as a number.
C6_TooFewIsErrorBadNumberPanics ==
    /\ (Decoded /\ TooFew) => parsed = Err("EINVAL")
    /\ (Decoded /\ BadNumber) => parsed = Panic

\* A record of five fields whose gid is 2^32 was decoded, to a panic.
C6_Witness ==
    /\ Decoded /\ BadNumber
    /\ input.fields[3] = DecOver
    /\ input.fields[2] = <<"1">> /\ input.fields[4] = <<"f">>
    /\ parsed = Panic

(* ------------------------------------------------------------------ *)
(* Properties of SpecManage                                           *)
(* ------------------------------------------------------------------ *)

\* C9: through the KeyManager value a manage call returned, and the copies
\* of it, at most one resolving call (instantiate, reject or negate) is
\* ever issued.
C9_OneShot == \A m \in Slots : resolving[m] <= 1

(* ------------------------------------------------------------------ *)
(* Properties of SpecRequest                                          *)
(* ------------------------------------------------------------------ *)

\* The request found no key and the kernel had one constructed.
Missed == request.key # 0

\* C12: a fallback request that found no matching key has not returned
\* while the key is under construction; if it returned success, the handle
\* is the new key's and the key was instantiated; if the key was rejected or
\* negated it returned a failure; and no request returns the handle of a
\* key that is still under construction.
C12_ReturnsWhenResolved ==
    /\ (request.state = "returned" /\ Missed) =>
           /\ kernel.obj[request.key].state # "pending"
           /\ request.res.tag = "Ok" =>
                  /\ request.res.val = Key(request.key)
                  /\ kernel.obj[request.key].state = "live"
           /\ kernel.obj[request.key].state = "negative" =>
                  request.res = Err(kernel.obj[request.key].error)
           /\ request.res.tag \in {"Ok", "Err"}
    /\ (request.state = "returned" /\ request.res.tag = "Ok") =>
           /\ request.res.val.id \in Serials
           /\ kernel.obj[request.res.val.id].state # "pending"
    /\ (request.state = "waiting") =>
           (Missed /\ request.res.tag = "none")

\* A request that found no key returned the new key's handle after a
\* manager instantiated the key with two bytes.
C12_Witness ==
    /\ request.state = "returned" /\ Missed
    /\ request.res = Ok(Key(request.key))
    /\ kernel.obj[request.key].payload = <<1, 2>>
    /\ \E m \in Slots : managers[m].state = "taken" /\ managers[m].key = request.key

(* ------------------------------------------------------------------ *)
(* Properties of SpecOwner                                            *)
(* ------------------------------------------------------------------ *)

\* The step that made the call `last'` of the operation op.
Calls(op) == last'.op = op /\ ncalls' = ncalls + 1

\* The id an ownership call leaves: the one passed, or the old one for !0.
Given(new, old) == IF new = NoChange THEN old ELSE new

\* C16: a successful chown(uid) changes the owning user of the handle's
\* object and nothing else in the kernel (not its group, permission mask,
\* timeout or payload, no link and no other object); a successful
\* chgrp(gid) changes the owning group and nothing else; a failed one
\* changes nothing; and Key::chown / Key::chgrp have the outcome of the
\* Keyring operation on the same serial.
C16_OwnershipIndependent ==
    [][/\ Calls("chown") =>
             /\ kernel' = IF last'.res.tag = "Ok"
                          THEN [kernel EXCEPT !.obj[last'.id].uid =
                                                  Given(last'.arg[1], @)]
                          ELSE kernel
             /\ Key_chown(kernel, last'.id, last'.arg[1])
                    = Keyring_chown(kernel, last'.id, last'.arg[1])
             /\ Out(last'.res, kernel') = Keyring_chown(kernel, last'.id, last'.arg[1])
       /\ Calls("chgrp") =>
             /\ kernel' = IF last'.res.tag = "Ok"
                          THEN [kernel EXCEPT !.obj[last'.id].gid =
                                                  Given(last'.arg[1], @)]
                          ELSE kernel
             /\ Key_chgrp(kernel, last'.id, last'.arg[1])
                    = Keyring_chgrp(kernel, last'.id, last'.arg[1])
             /\ Out(last'.res, kernel') = Keyring_chgrp(kernel, last'.id, last'.arg[1])]_vars

\* The third call changed the owner of the key, whose group and timeout
\* the calls before had set: they, the payload and the link are as they were.
C16_Witness ==
    /\ last.op = "chown" /\ Succeeded /\ ncalls = 3
    /\ kernel.obj[last.id].type = TypeUser
    /\ kernel.obj[last.id].uid = U32(1000)
    /\ kernel.obj[last.id].gid = U32(1000)
    /\ kernel.obj[last.id].timeout = 5
    /\ kernel.obj[last.id].payload = <<1>>
    /\ kernel.obj[last.id].perm = PermDefault
    /\ kernel.links[1] = <<last.id>>

====
